---- MODULE Spec2Model ----
(***************************************************************************)
(* A model of package relnote (src/relnote/relnote.go): CheckFragment,     *)
(* Merge and removeEmptySections, with the string and path helpers they    *)
(* use.  The markdown parser (rsc.io/markdown) is outside the package: a   *)
(* parsed document is modelled directly as its sequence of top-level       *)
(* blocks and its set of link-reference definitions.                       *)
(*                                                                         *)
(* Strings are sequences of one-character strings, so that the byte order  *)
(* of paths, suffixes, cuts and substring searches are computed and not    *)
(* assumed.                                                                *)
(***************************************************************************)
EXTENDS Integers, Sequences, FiniteSets, TLC

VARIABLES
    pc,         \* position of the operation in progress
    fsys,       \* Merge: the file tree, path -> parsed content of the file
    filenames,  \* Merge: the sorted list of markdown filenames
    fileIdx,    \* Merge: index of the next filename of the range loop
    doc,        \* Merge: the accumulated document [Blocks, Links]
    prevPkg,    \* Merge: previous stdlib package, if any
    log,        \* Merge: per iteration, the file and whether a heading was inserted
    ret,        \* Merge: the returned (document, error) pair
    bs,         \* removeEmptySections: the argument
    pruned,     \* removeEmptySections(bs)
    pruned2,    \* removeEmptySections(pruned)
    data,       \* CheckFragment: the parsed blocks of the fragment
    checkErr    \* CheckFragment: the returned error

vars == <<pc, fsys, filenames, fileIdx, doc, prevPkg, log, ret,
          bs, pruned, pruned2, data, checkErr>>

mergeVars == <<fsys, filenames, fileIdx, doc, prevPkg, log, ret>>
pruneVars == <<bs, pruned, pruned2>>
checkVars == <<data, checkErr>>

(***************************************************************************)
(* Bounds of the model.                                                    *)
(***************************************************************************)
MaxLevel    == 2   \* heading levels 1..MaxLevel in generated documents
MaxPruneLen == 4   \* blocks of an argument of removeEmptySections
MaxTightLen == 5   \* blocks of an argument made of one-line blocks only
MaxFiles    == 3   \* files of a tree given to Merge
MaxOneLen   == 3   \* blocks of the fragment of a one-file tree
MaxCheckLen == 4   \* blocks of a fragment given to CheckFragment

(***************************************************************************)
(* Strings.                                                                *)
(***************************************************************************)
Letters == <<"a", "b", "c", "d", "e", "f", "g", "h", "i", "j", "k", "l", "m",
             "n", "o", "p", "q", "r", "s", "t", "u", "v", "w", "x", "y", "z">>

\* The byte value of a character of a path.
Byte(c) ==
    IF c = "." THEN 46
    ELSE IF c = "/" THEN 47
    ELSE 96 + (CHOOSE i \in 1..Len(Letters) : Letters[i] = c)

\* Go's < on strings: bytewise lexicographic order.
RECURSIVE StringLess(_, _)
StringLess(a, b) ==
    IF b = <<>> THEN FALSE
    ELSE IF a = <<>> THEN TRUE
    ELSE IF Byte(Head(a)) # Byte(Head(b)) THEN Byte(Head(a)) < Byte(Head(b))
    ELSE StringLess(Tail(a), Tail(b))

HasSuffix(s, suffix) ==
    /\ Len(s) >= Len(suffix)
    /\ SubSeq(s, Len(s) - Len(suffix) + 1, Len(s)) = suffix

Contains(s, substr) ==
    \E i \in 1..(Len(s) - Len(substr) + 1) :
        SubSeq(s, i, i + Len(substr) - 1) = substr

ContainsAny(s, chars) == \E i \in 1..Len(s) : s[i] \in chars

RECURSIVE TrimLeft(_)
TrimLeft(s) ==
    IF s # <<>> /\ Head(s) = " " THEN TrimLeft(Tail(s)) ELSE s

RECURSIVE TrimRight(_)
TrimRight(s) ==
    IF s # <<>> /\ s[Len(s)] = " " THEN TrimRight(SubSeq(s, 1, Len(s) - 1)) ELSE s

TrimSpace(s) == TrimRight(TrimLeft(s))

\* strings.Cut(s, "/"): the text before and after the first separator.
Cut(s, sep) ==
    IF \E i \in 1..Len(s) : s[i] = sep
    THEN LET i == CHOOSE j \in 1..Len(s) :
                      s[j] = sep /\ \A k \in 1..(j - 1) : s[k] # sep
         IN  [before |-> SubSeq(s, 1, i - 1), after |-> SubSeq(s, i + 1, Len(s)),
              found |-> TRUE]
    ELSE [before |-> s, after |-> <<>>, found |-> FALSE]

\* path.Dir on a clean relative path: all but the last element, "." if none.
PathDir(p) ==
    IF \E i \in 1..Len(p) : p[i] = "/"
    THEN LET i == CHOOSE j \in 1..Len(p) :
                      p[j] = "/" /\ \A k \in (j + 1)..Len(p) : p[k] # "/"
         IN  SubSeq(p, 1, i - 1)
    ELSE <<".">>

(***************************************************************************)
(* Blocks.                                                                 *)
(***************************************************************************)
isHeading(b) == b.kind = "Heading"

isEmpty(b) == b.kind = "Empty"

addLines(b, n) ==
    [b EXCEPT !.StartLine = @ + n, !.EndLine = @ + n]

Last(s) == s[Len(s)]

Front(s) == SubSeq(s, 1, Len(s) - 1)

RECURSIVE MapAddLines(_, _)
MapAddLines(blocks, n) ==
    IF blocks = <<>> THEN <<>>
    ELSE <<addLines(Head(blocks), n)>> \o MapAddLines(Tail(blocks), n)

(***************************************************************************)
(* removeEmptySections.                                                    *)
(***************************************************************************)
\* rem with "if" for "for": only the last heading is removed.
remOnce(st, level) ==
    IF Len(st.res) > 0 /\ isHeading(Last(st.res)) /\ Last(st.res).Level >= level
    THEN [res   |-> Front(st.res),
          delta |-> st.delta + Last(st.res).EndLine - Last(st.res).StartLine + 2]
    ELSE st

\* rem without the blank line between headings.
RECURSIVE remNoBlank(_, _)
remNoBlank(st, level) ==
    IF Len(st.res) > 0 /\ isHeading(Last(st.res)) /\ Last(st.res).Level >= level
    THEN remNoBlank([res   |-> Front(st.res),
                     delta |-> st.delta + Last(st.res).EndLine
                                  - Last(st.res).StartLine + 1], level)
    ELSE st

\* rem with > for >=: a heading at the same level is left in place.
RECURSIVE remStrict(_, _)
remStrict(st, level) ==
    IF Len(st.res) > 0 /\ isHeading(Last(st.res)) /\ Last(st.res).Level > level
    THEN remStrict([res   |-> Front(st.res),
                    delta |-> st.delta + Last(st.res).EndLine
                                 - Last(st.res).StartLine + 2], level)
    ELSE st

\* The closure rem: remove preceding headings at same or higher level.
RECURSIVE rem(_, _)
rem(st, level) ==
    IF Len(st.res) > 0 /\ isHeading(Last(st.res)) /\ Last(st.res).Level >= level
    THEN rem([res   |-> Front(st.res),
              delta |-> st.delta + Last(st.res).EndLine - Last(st.res).StartLine + 2],
             level)
    ELSE st

\* The range loop of removeEmptySections, from block i on.
RECURSIVE pruneLoop(_, _, _)
pruneLoop(blocks, st, i) ==
    IF i > Len(blocks) THEN st
    ELSE LET b   == blocks[i]
             st1 == IF isHeading(b) THEN rem(st, b.Level) ELSE st
         IN  pruneLoop(blocks,
                       [res   |-> Append(st1.res, addLines(b, -st1.delta)),
                        delta |-> st1.delta],
                       i + 1)

removeEmptySections(blocks) ==
    rem(pruneLoop(blocks, [res |-> <<>>, delta |-> 0], 1), 1).res

(***************************************************************************)
(* Generated documents: the positions a parser gives the top-level blocks  *)
(* of one file.  Each block starts gap lines after the end of the block    *)
(* before it (gap 1: on the next line; gap 2: after one blank line) and    *)
(* covers span + 1 lines; id is the block's index in the file.             *)
(***************************************************************************)
Kinds(levels) ==
    {[kind |-> "Heading", Level |-> l] : l \in levels}
        \cup {[kind |-> "Paragraph", Level |-> 0]}

EmptyKind == [kind |-> "Empty", Level |-> 0]

mkBlock(k, s, prevEnd, n) ==
    [kind |-> k.kind, Level |-> k.Level,
     StartLine |-> prevEnd + s.gap, EndLine |-> prevEnd + s.gap + s.span,
     id |-> n]

\* The blocks of a file whose i-th block has kind sp[i][1] and shape sp[i][2].
RECURSIVE LayoutOf(_)
LayoutOf(sp) ==
    IF sp = <<>> THEN <<>>
    ELSE LET d == LayoutOf(Front(sp))
         IN  Append(d, mkBlock(Last(sp)[1], Last(sp)[2],
                               IF d = <<>> THEN 0 ELSE Last(d).EndLine, Len(sp)))

\* adjacent lines, one blank line between, and a two-line block after a blank line
PruneShapes == {[gap |-> 1, span |-> 0], [gap |-> 2, span |-> 0], [gap |-> 2, span |-> 1]}

\* one-line blocks, adjacent or separated by one blank line
TightShapes == {[gap |-> 1, span |-> 0], [gap |-> 2, span |-> 0]}

NoDoc == [Blocks |-> <<>>, Links |-> {}]

NoErr == [msg |-> "nil", key |-> "", filename |-> <<>>]

NoCheckErr == [msg |-> "nil", heading |-> <<>>]

mergeIdle ==
    /\ fsys = <<>>
    /\ filenames = <<>>
    /\ fileIdx = 0
    /\ doc = NoDoc
    /\ prevPkg = <<>>
    /\ log = <<>>
    /\ ret = [isNil |-> TRUE, doc |-> NoDoc, err |-> NoErr]

pruneIdle == bs = <<>> /\ pruned = <<>> /\ pruned2 = <<>>

checkIdle == data = <<>> /\ checkErr = NoCheckErr

(***************************************************************************)
(* The pruner on its own: removeEmptySections applied to a block sequence, *)
(* and applied again to its own result.  bs keeps the argument as it was   *)
(* given (the code shifts the blocks in place).                            *)
(***************************************************************************)
InitPrune ==
    /\ pc = "prune"
    /\ \E n \in 0..MaxPruneLen :
           \E sp \in [1..n -> Kinds(1..MaxLevel) \X PruneShapes] : bs = LayoutOf(sp)
    /\ pruned = <<>>
    /\ pruned2 = <<>>
    /\ mergeIdle
    /\ checkIdle

InitPruneTight ==
    /\ pc = "prune"
    /\ \E n \in 0..MaxTightLen :
           \E sp \in [1..n -> Kinds(1..MaxLevel) \X TightShapes] : bs = LayoutOf(sp)
    /\ pruned = <<>>
    /\ pruned2 = <<>>
    /\ mergeIdle
    /\ checkIdle

Prune ==
    /\ pc = "prune"
    /\ pruned' = removeEmptySections(bs)
    /\ pc' = "pruned"
    /\ UNCHANGED <<bs, pruned2, mergeVars, checkVars>>

PruneAgain ==
    /\ pc = "pruned"
    /\ pruned2' = removeEmptySections(pruned)
    /\ pc' = "pruned2"
    /\ UNCHANGED <<bs, pruned, mergeVars, checkVars>>

NextPrune == Prune \/ PruneAgain

SpecPrune == InitPrune /\ [][NextPrune]_vars

SpecPruneTight == InitPruneTight /\ [][NextPrune]_vars

(***************************************************************************)
(* Properties of removeEmptySections.                                      *)
(***************************************************************************)
Monotone(blocks) ==
    \A i \in 1..(Len(blocks) - 1) : blocks[i].EndLine <= blocks[i + 1].StartLine

Ids(blocks) == [i \in 1..Len(blocks) |-> blocks[i].id]

\* The section of heading i has content: a non-heading block follows it
\* before the next heading of level <= its own, or the end.
HasContent(blocks, i) ==
    \E j \in (i + 1)..Len(blocks) :
        /\ ~isHeading(blocks[j])
        /\ \A k \in (i + 1)..(j - 1) :
               ~(isHeading(blocks[k]) /\ blocks[k].Level <= blocks[i].Level)

Kept(blocks, i) == ~isHeading(blocks[i]) \/ HasContent(blocks, i)

RECURSIVE KeptIds(_, _)
KeptIds(blocks, i) ==
    IF i > Len(blocks) THEN <<>>
    ELSE (IF Kept(blocks, i) THEN <<blocks[i].id>> ELSE <<>>) \o KeptIds(blocks, i + 1)

BlankSeparated(blocks) ==
    \A i \in 1..(Len(blocks) - 1) : blocks[i + 1].StartLine = blocks[i].EndLine + 2

\* C2: for a monotonically ordered argument (a.EndLine <= b.StartLine for
\* adjacent a, b), the result of removeEmptySections is monotonically
\* ordered too.
C2_PruneMonotone ==
    (pc # "prune" /\ Monotone(bs)) => Monotone(pruned)

\* C3: pruning is idempotent: removeEmptySections of a pruned sequence is
\* that sequence, block for block and line for line.
C3_PruneIdempotent ==
    pc = "pruned2" => pruned2 = pruned

C3_Witness ==
    /\ pc = "pruned2"
    /\ Len(pruned) >= 2
    /\ Len(pruned) < Len(bs)
    /\ \E i \in 1..Len(pruned) : isHeading(pruned[i])
    /\ \E i \in 1..Len(pruned) : pruned[i].StartLine # bs[pruned[i].id].StartLine

\* C4: the result is the argument with exactly the headings of empty
\* sections removed, in the original order; so no heading of the result is
\* last or directly followed by a heading of equal or lesser level number.
C4_PruneExact ==
    pc # "prune" =>
        /\ Ids(pruned) = KeptIds(bs, 1)
        /\ \A i \in 1..Len(pruned) :
               /\ pruned[i].kind = bs[pruned[i].id].kind
               /\ pruned[i].Level = bs[pruned[i].id].Level
               /\ isHeading(pruned[i]) =>
                      /\ i < Len(pruned)
                      /\ ~(isHeading(pruned[i + 1])
                             /\ pruned[i + 1].Level <= pruned[i].Level)

C4_Witness ==
    /\ pc = "pruned"
    /\ \E i, j \in 1..Len(bs) :
           /\ isHeading(bs[i]) /\ ~Kept(bs, i)
           /\ isHeading(bs[j]) /\ Kept(bs, j)
           /\ i < j
    /\ \E i \in 1..(Len(pruned) - 1) :
           isHeading(pruned[i]) /\ isHeading(pruned[i + 1])

\* C10: when every adjacent pair of the argument is separated by exactly
\* one blank line, so is every adjacent pair of the result; every kept
\* block keeps its line span, and the first kept block starts on the line
\* where the argument's first block started.
C10_NoDiscontinuity ==
    (pc # "prune" /\ BlankSeparated(bs)) =>
        /\ BlankSeparated(pruned)
        /\ \A i \in 1..Len(pruned) :
               pruned[i].EndLine - pruned[i].StartLine
                   = bs[pruned[i].id].EndLine - bs[pruned[i].id].StartLine
        /\ pruned # <<>> => pruned[1].StartLine = bs[1].StartLine

C10_Witness ==
    /\ pc = "pruned"
    /\ BlankSeparated(bs)
    /\ Len(bs) = 4
    /\ Len(pruned) = 2
    /\ pruned[1].id = 3
    /\ bs[1].EndLine > bs[1].StartLine

(***************************************************************************)
(* CheckFragment.  A block of the fragment is [kind, text]: text is the    *)
(* plain text of a heading's title or of a paragraph's inlines.            *)
(***************************************************************************)
\* text returns all the text in a block, without any formatting.
text(b) == IF isEmpty(b) THEN <<>> ELSE b.text

headingTextMustMatch(s) == Len(s) = 0 \/ s[1] # "+"

\* a TODO or standard end-of-sentence punctuation
hasSentence(t) ==
    Contains(t, <<"T", "O", "D", "O">>) \/ ContainsAny(t, {".", "?", "!"})

\* The range loop over doc.Blocks[1:], from block i on; st is (cur, found)
\* and the loop is left at a heading that follows a section without content.
RECURSIVE checkLoop(_, _, _)
checkLoop(blocks, i, st) ==
    IF i > Len(blocks) THEN st
    ELSE IF isHeading(blocks[i])
         THEN IF ~st.found THEN st
              ELSE checkLoop(blocks, i + 1, [cur |-> i, found |-> FALSE])
         ELSE checkLoop(blocks, i + 1,
                        [cur |-> st.cur, found |-> hasSentence(text(blocks[i]))])

CheckFragment(blocks) ==
    IF Len(blocks) = 0 THEN [msg |-> "empty content", heading |-> <<>>]
    ELSE IF ~isHeading(blocks[1])
    THEN [msg |-> "does not start with a heading", heading |-> <<>>]
    ELSE IF TrimSpace(text(blocks[1])) = <<>>
    THEN [msg |-> "starts with an empty heading", heading |-> <<>>]
    ELSE IF ~headingTextMustMatch(text(blocks[1]))
    THEN [msg |-> "starts with a non-matching heading", heading |-> <<>>]
    ELSE LET st == checkLoop(blocks, 2, [cur |-> 1, found |-> FALSE])
         IN  IF ~st.found
             THEN [msg |-> "section needs a TODO or a sentence",
                   heading |-> text(blocks[st.cur])]
             ELSE NoCheckErr

HeadingTexts == {<<>>, <<" ">>, <<"+", "h">>, <<"h">>}

ParagraphTexts ==
    {<<"T", "O", "D", "O">>, <<"T", "O", "D">>, <<"a", ".">>, <<"a", "?">>,
     <<"!">>, <<"a">>}

CheckBlocks ==
    {[kind |-> "Heading", text |-> t] : t \in HeadingTexts}
        \cup {[kind |-> "Paragraph", text |-> t] : t \in ParagraphTexts}
        \cup {[kind |-> "Empty", text |-> <<>>]}

InitCheck ==
    /\ pc = "check"
    /\ \E n \in 0..MaxCheckLen : data \in [1..n -> CheckBlocks]
    /\ checkErr = NoCheckErr
    /\ mergeIdle
    /\ pruneIdle

Check ==
    /\ pc = "check"
    /\ checkErr' = CheckFragment(data)
    /\ pc' = "checked"
    /\ UNCHANGED <<data, mergeVars, pruneVars>>

NextCheck == Check

SpecCheck == InitCheck /\ [][NextCheck]_vars

PassesLeadingChecks(blocks) ==
    /\ Len(blocks) > 0
    /\ isHeading(blocks[1])
    /\ TrimSpace(text(blocks[1])) # <<>>
    /\ text(blocks[1])[1] # "+"

\* The section of heading i: the non-heading blocks up to the next heading.
SectionHasSentence(blocks, i) ==
    \E j \in (i + 1)..Len(blocks) :
        /\ ~isHeading(blocks[j])
        /\ \A k \in (i + 1)..(j - 1) : ~isHeading(blocks[k])
        /\ hasSentence(text(blocks[j]))

\* C5: a fragment that passes the leading-heading checks is accepted if
\* and only if every section holds at least one non-heading block whose
\* text contains TODO or one of . ? !, wherever in the section it stands.
C5_CheckIffEverySection ==
    (pc = "checked" /\ PassesLeadingChecks(data)) =>
        ((checkErr = NoCheckErr)
            <=> \A i \in 1..Len(data) :
                    isHeading(data[i]) => SectionHasSentence(data, i))

(***************************************************************************)
(* Merge.                                                                  *)
(***************************************************************************)
DotMd == <<".", "m", "d">>

\* fs.WalkDir walks the tree in lexical order, directory by directory: a
\* path is compared element by element, so "/" ranks before every byte.
RECURSIVE WalkLess(_, _)
WalkLess(a, b) ==
    IF b = <<>> THEN FALSE
    ELSE IF a = <<>> THEN TRUE
    ELSE IF Head(a) = Head(b) THEN WalkLess(Tail(a), Tail(b))
    ELSE IF Head(a) = "/" THEN TRUE
    ELSE IF Head(b) = "/" THEN FALSE
    ELSE Byte(Head(a)) < Byte(Head(b))

RECURSIVE WalkOrder(_)
WalkOrder(paths) ==
    IF paths = {} THEN <<>>
    ELSE LET first == CHOOSE x \in paths : \A y \in paths \ {x} : WalkLess(x, y)
         IN  <<first>> \o WalkOrder(paths \ {first})

\* The files the WalkDir callback appends: the non-directories ending in ".md".
WalkDir(tree) ==
    SelectSeq(WalkOrder(DOMAIN tree), LAMBDA path : HasSuffix(path, DotMd))

RECURSIVE insertSorted(_, _)
insertSorted(s, x) ==
    IF s = <<>> THEN <<x>>
    ELSE IF StringLess(x, Head(s)) THEN <<x>> \o s
    ELSE <<Head(s)>> \o insertSorted(Tail(s), x)

RECURSIVE slicesSort(_)
slicesSort(s) ==
    IF s = <<>> THEN <<>> ELSE insertSorted(slicesSort(Front(s)), Last(s))

\* sortedMarkdownFilenames without the call of slices.Sort.
walkedMarkdownFilenames(tree) == WalkDir(tree)

sortedMarkdownFilenames(tree) == slicesSort(WalkDir(tree))

\* parseFile: the parsed document of a file.  Every block and link of the
\* result is an object of its own: file names the file it was parsed from.
parseFile(tree, path) ==
    [Blocks |-> [i \in 1..Len(tree[path].Blocks) |->
                    [kind      |-> tree[path].Blocks[i].kind,
                     Level     |-> tree[path].Blocks[i].Level,
                     StartLine |-> tree[path].Blocks[i].StartLine,
                     EndLine   |-> tree[path].Blocks[i].EndLine,
                     id        |-> tree[path].Blocks[i].id,
                     file      |-> path,
                     pkg       |-> <<>>]],
     Links  |-> {[key |-> k, file |-> path] : k \in tree[path].Links}]

stdlibPackage(filename) ==
    LET c1 == Cut(filename, "/")
        c2 == Cut(c1.after, "/")
        pkg == PathDir(c2.after)
    IN  IF ~HasSuffix(c1.before, <<"s", "t", "d", "l", "i", "b">>) THEN <<>>
        ELSE IF ~HasSuffix(c2.before, <<"m", "i", "n", "o", "r">>) THEN <<>>
        ELSE IF pkg = <<".">> THEN <<>>
        ELSE pkg

stdlibPackageHeading(pkg, lastLine) ==
    [kind |-> "Heading", Level |-> 4,
     StartLine |-> lastLine + 2, EndLine |-> lastLine + 2,
     id |-> 0, file |-> <<>>, pkg |-> pkg]

\* Appending every block, the Empty ones too.
RECURSIVE appendAll(_, _)
appendAll(blocks, new) ==
    IF new = <<>> THEN blocks
    ELSE appendAll(Append(blocks, Head(new)), Tail(new))

\* Append non-empty blocks to the result document.
RECURSIVE appendNonEmpty(_, _)
appendNonEmpty(blocks, new) ==
    IF new = <<>> THEN blocks
    ELSE appendNonEmpty(IF isEmpty(Head(new)) THEN blocks
                        ELSE Append(blocks, Head(new)),
                        Tail(new))

\* A merge of the link references that checks nothing.
noDupKeys(links, newLinks) == {}

\* The keys of newLinks that doc.Links holds already.
dupKeys(links, newLinks) ==
    {l.key : l \in {n \in newLinks : \E d \in links : d.key = n.key}}

\* The blank line that separates the links: the last block's position, two
\* lines further down.
linkSeparator(last) ==
    [kind |-> "Empty", Level |-> 0,
     StartLine |-> last.StartLine + 2, EndLine |-> last.EndLine + 2,
     id |-> 0, file |-> <<>>, pkg |-> <<>>]

MergeStart ==
    /\ pc = "merge"
    /\ filenames' = sortedMarkdownFilenames(fsys)
    /\ doc' = NoDoc
    /\ prevPkg' = <<>>
    /\ fileIdx' = 1
    /\ pc' = "files"
    /\ UNCHANGED <<fsys, log, ret, pruneVars, checkVars>>

\* One iteration of the loop over filenames.  Which of several duplicate
\* keys the range over newdoc.Links meets first is not determined.
MergeFile ==
    /\ pc = "files"
    /\ fileIdx <= Len(filenames)
    /\ LET filename == filenames[fileIdx]
           newdoc   == parseFile(fsys, filename)
           pkg      == stdlibPackage(filename)
           some     == Len(doc.Blocks) > 0
           heading  == some /\ pkg # <<>> /\ pkg # prevPkg
           blocks1  == IF heading
                       THEN Append(doc.Blocks,
                                   stdlibPackageHeading(pkg, Last(doc.Blocks).EndLine))
                       ELSE doc.Blocks
           delta    == Last(blocks1).EndLine + 2 - newdoc.Blocks[1].StartLine
           shifted  == IF some THEN MapAddLines(newdoc.Blocks, delta)
                       ELSE newdoc.Blocks
           blocks2  == appendNonEmpty(blocks1, shifted)
           dups     == dupKeys(doc.Links, newdoc.Links)
       IN  IF Len(newdoc.Blocks) = 0
           THEN /\ fileIdx' = fileIdx + 1
                /\ log' = Append(log, [filename |-> filename, pkg |-> pkg,
                                       blocks |-> 0, heading |-> FALSE])
                /\ UNCHANGED <<pc, doc, prevPkg, ret>>
           ELSE /\ log' = Append(log, [filename |-> filename, pkg |-> pkg,
                                       blocks |-> Len(newdoc.Blocks),
                                       heading |-> heading])
                /\ prevPkg' = IF some THEN pkg ELSE prevPkg
                /\ IF dups # {}
                   THEN /\ \E key \in dups :
                               ret' = [isNil |-> TRUE, doc |-> NoDoc,
                                       err |-> [msg |-> "duplicate link reference",
                                                key |-> key, filename |-> filename]]
                        /\ doc' = [Blocks |-> blocks2, Links |-> doc.Links]
                        /\ pc' = "failed"
                        /\ UNCHANGED fileIdx
                   ELSE /\ doc' = [Blocks |-> blocks2,
                                   Links |-> doc.Links \cup newdoc.Links]
                        /\ fileIdx' = fileIdx + 1
                        /\ UNCHANGED <<pc, ret>>
    /\ UNCHANGED <<fsys, filenames, pruneVars, checkVars>>

\* After the loop: remove headings with empty contents, separate the links.
MergeFinish ==
    /\ pc = "files"
    /\ fileIdx > Len(filenames)
    /\ LET blocks == removeEmptySections(doc.Blocks)
           final  == IF Len(blocks) > 0 /\ doc.Links # {}
                     THEN Append(blocks, linkSeparator(Last(blocks)))
                     ELSE blocks
       IN  /\ doc' = [Blocks |-> final, Links |-> doc.Links]
           /\ ret' = [isNil |-> FALSE, doc |-> doc', err |-> NoErr]
    /\ pc' = "done"
    /\ UNCHANGED <<fsys, filenames, fileIdx, prevPkg, log, pruneVars, checkVars>>

Next == MergeStart \/ MergeFile \/ MergeFinish

(***************************************************************************)
(* The trees given to Merge.                                               *)
(***************************************************************************)
Stdlib == <<"s", "t", "d", "l", "i", "b", "/", "m", "i", "n", "o", "r", "/">>

Paths ==
    {<<"a", "/", "o", "n", "e">> \o DotMd,
     <<"a">> \o DotMd,
     <<"b">> \o DotMd,
     <<"b", ".", "t", "x", "t">>,
     Stdlib \o <<"c">> \o DotMd,
     Stdlib \o <<"n", "e", "t", "/", "a">> \o DotMd,
     Stdlib \o <<"n", "e", "t", "/", "b">> \o DotMd,
     Stdlib \o <<"o", "s", "/", "a">> \o DotMd}

Para == [kind |-> "Paragraph", Level |-> 0]

Section == [kind |-> "Heading", Level |-> 3]

\* The contents of a file of a tree of several files: an empty file, a
\* paragraph, a link definition and a paragraph, a section with two link
\* definitions, link definitions alone, and a heading alone.
Fragments ==
    {[Blocks |-> LayoutOf([i \in 1..Len(f.ks) |-> <<f.ks[i], [gap |-> 1, span |-> 0]>>]),
      Links  |-> f.links] :
        f \in {[ks |-> <<>>, links |-> {}],
               [ks |-> <<Para>>, links |-> {}],
               [ks |-> <<EmptyKind, Para>>, links |-> {"k1"}],
               [ks |-> <<Section, Para>>, links |-> {"k1", "k2"}],
               [ks |-> <<EmptyKind>>, links |-> {"k2"}],
               [ks |-> <<Section>>, links |-> {}]}}

\* adjacent, after a blank line, and a four-line block after a blank line
OneShapes == {[gap |-> 1, span |-> 0], [gap |-> 2, span |-> 0], [gap |-> 2, span |-> 3]}

mergeReady ==
    /\ pc = "merge"
    /\ filenames = <<>>
    /\ fileIdx = 0
    /\ doc = NoDoc
    /\ prevPkg = <<>>
    /\ log = <<>>
    /\ ret = [isNil |-> TRUE, doc |-> NoDoc, err |-> NoErr]
    /\ pruneIdle
    /\ checkIdle

Init ==
    /\ \E files \in {S \in SUBSET Paths : Cardinality(S) <= MaxFiles} :
           fsys \in [files -> Fragments]
    /\ mergeReady

\* A tree of one file; a link definition is a block of the file it stands in.
InitOne ==
    /\ \E n \in 0..MaxOneLen :
           \E sp \in [1..n -> (Kinds(1..MaxLevel) \cup {EmptyKind}) \X OneShapes] :
               \E links \in {{}, {"k1"}} :
                   /\ links # {} => n > 0
                   /\ fsys = (<<"a">> \o DotMd :> [Blocks |-> LayoutOf(sp),
                                                    Links  |-> links])
    /\ mergeReady

Spec == Init /\ [][Next]_vars

SpecOne == InitOne /\ [][Next]_vars

(***************************************************************************)
(* Properties of Merge.                                                    *)
(***************************************************************************)
\* The top-level blocks of every file have StartLine <= EndLine and stand
\* in increasing, non-overlapping line order.
WellFormed(tree) ==
    \A f \in DOMAIN tree :
        /\ \A i \in 1..Len(tree[f].Blocks) :
               tree[f].Blocks[i].StartLine <= tree[f].Blocks[i].EndLine
        /\ \A i \in 1..(Len(tree[f].Blocks) - 1) :
               tree[f].Blocks[i].EndLine < tree[f].Blocks[i + 1].StartLine

NonEmptyOf(blocks) == SelectSeq(blocks, LAMBDA b : ~isEmpty(b))

\* C1: in the document Merge returns over well-formed fragments, every
\* adjacent pair of blocks (a, b), the trailing Empty block included,
\* has a.EndLine <= b.StartLine; the trailing Empty block that follows a
\* non-empty link map stands two lines after the last remaining block.
C1_MergeMonotone ==
    (pc = "done" /\ WellFormed(fsys)) =>
        /\ Monotone(ret.doc.Blocks)
        /\ (ret.doc.Links # {} /\ ret.doc.Blocks # <<>>) =>
               LET n == Len(ret.doc.Blocks)
               IN  /\ n >= 2
                   /\ isEmpty(ret.doc.Blocks[n])
                   /\ ret.doc.Blocks[n].StartLine = ret.doc.Blocks[n - 1].StartLine + 2

Keys(f) == fsys[f].Links

\* File i of the merge order defines a key that an earlier file defines.
Clash(i) == \E j \in 1..(i - 1) : Keys(filenames[j]) \cap Keys(filenames[i]) # {}

Returned == pc \in {"done", "failed"}

DuplicateError == ret.isNil /\ ret.err.msg = "duplicate link reference"

\* C6 as stated: whenever two files define the same link key, Merge fails
\* with a duplicate-link-reference error naming that key and the later of
\* the two files, and returns no document.
C6_EveryPairNamed ==
    Returned =>
        \A j \in 1..Len(filenames) : \A i \in 1..(j - 1) :
            \A k \in Keys(filenames[i]) \cap Keys(filenames[j]) :
                /\ DuplicateError
                /\ ret.err.key = k
                /\ ret.err.filename = filenames[j]

\* C6 as amended: whenever two markdown files with blocks define the same
\* link key, Merge returns no document and a duplicate-link-reference
\* error; the error names the first such file of the merge order that
\* defines a key an earlier one defines, and one of the keys it shares
\* with an earlier file.
C6_FirstClashNamed ==
    (Returned /\ \E i \in 1..Len(filenames) : Clash(i)) =>
        /\ DuplicateError
        /\ LET i == CHOOSE c \in 1..Len(filenames) :
                        Clash(c) /\ \A d \in 1..(c - 1) : ~Clash(d)
           IN  /\ ret.err.filename = filenames[i]
               /\ \E j \in 1..(i - 1) :
                      ret.err.key \in Keys(filenames[j]) \cap Keys(filenames[i])

C6_Witness ==
    /\ pc = "failed"
    /\ Len(filenames) = 3
    /\ "k1" \in Keys(filenames[1]) \cap Keys(filenames[2]) \cap Keys(filenames[3])
    /\ ret.err.filename = filenames[2]

\* The files merged before file i that have at least one block.
Before(i) == {j \in 1..(i - 1) : log[j].blocks > 0}

\* File i is the first of its package: the nearest file with blocks
\* before it, if any, maps to another package.
FirstOfPackage(i) ==
    \/ Before(i) = {}
    \/ log[CHOOSE j \in Before(i) : \A k \in Before(i) : k <= j].pkg # log[i].pkg

\* C7: of two files consecutive in merge order, both with blocks and both
\* of the same stdlib package, Merge inserts the package heading before
\* the blocks of the first (when it is the first of its package) and not
\* before the blocks of the second, wherever the pair stands in the order.
C7_HeadingBeforeFirstOnly ==
    \A i \in 1..(Len(log) - 1) :
        (/\ log[i].blocks > 0
         /\ log[i + 1].blocks > 0
         /\ log[i].pkg # <<>>
         /\ log[i].pkg = log[i + 1].pkg) =>
            /\ ~log[i + 1].heading
            /\ FirstOfPackage(i) => log[i].heading

Fragment == parseFile(fsys, <<"a">> \o DotMd)

\* Every heading of the fragment is followed, within its section, by a
\* block that is neither a heading nor Empty.
NoEmptySections(blocks) ==
    \A i \in 1..Len(NonEmptyOf(blocks)) :
        isHeading(NonEmptyOf(blocks)[i]) => HasContent(NonEmptyOf(blocks), i)

\* C8 as stated: merging one non-empty fragment without empty sections
\* returns that fragment's blocks unchanged, nothing added or dropped, and
\* its link map (here for the fragments that hold no Empty block).
C8_RoundTrip ==
    (/\ pc = "done"
     /\ Len(Fragment.Blocks) > 0
     /\ NoEmptySections(Fragment.Blocks)
     /\ NonEmptyOf(Fragment.Blocks) = Fragment.Blocks) =>
        /\ ~ret.isNil
        /\ ret.doc.Blocks = Fragment.Blocks
        /\ ret.doc.Links = Fragment.Links

\* C8 as amended: merging one non-empty fragment without empty sections
\* returns the fragment's blocks other than its Empty blocks, in order and
\* on their lines, followed, when the link map is non-empty and a block
\* remains, by one Empty block on the last block's lines plus two; the
\* link map is the fragment's.
C8_RoundTripNonEmpty ==
    (pc = "done" /\ Len(Fragment.Blocks) > 0 /\ NoEmptySections(Fragment.Blocks)) =>
        LET kept == NonEmptyOf(Fragment.Blocks)
            n    == Len(kept)
        IN  /\ ~ret.isNil
            /\ ret.doc.Links = Fragment.Links
            /\ SubSeq(ret.doc.Blocks, 1, n) = kept
            /\ IF Fragment.Links # {} /\ n > 0
               THEN /\ Len(ret.doc.Blocks) = n + 1
                    /\ isEmpty(ret.doc.Blocks[n + 1])
                    /\ ret.doc.Blocks[n + 1].StartLine = kept[n].StartLine + 2
                    /\ ret.doc.Blocks[n + 1].EndLine = kept[n].EndLine + 2
               ELSE Len(ret.doc.Blocks) = n

C8_Witness ==
    /\ pc = "done"
    /\ Len(Fragment.Blocks) = 3
    /\ NoEmptySections(Fragment.Blocks)
    /\ isHeading(Fragment.Blocks[1])
    /\ isEmpty(Fragment.Blocks[2])
    /\ Fragment.Links # {}
    /\ Len(ret.doc.Blocks) = 3

AOneMd == <<"a", "/", "o", "n", "e">> \o DotMd

AMd == <<"a">> \o DotMd

BMd == <<"b">> \o DotMd

\* C9: the merge order is the bytewise order of the paths of the ".md"
\* files: in the returned document every surviving block of file f stands
\* before every surviving block of file g when f sorts before g, the
\* blocks of one file keep their order, and D.md is merged before the
\* files under D/ (a/one.md, a.md, b.md are merged as a.md, a/one.md, b.md).
C9_MergeOrder ==
    /\ (pc = "files" /\ fileIdx = 1) =>
           /\ {filenames[i] : i \in 1..Len(filenames)}
                  = {f \in DOMAIN fsys : HasSuffix(f, DotMd)}
           /\ \A i, j \in 1..Len(filenames) :
                  i < j => StringLess(filenames[i], filenames[j])
           /\ \A i, j \in 1..Len(filenames) :
                  (filenames[i] = AOneMd /\ filenames[j] = AMd) => j < i
           /\ DOMAIN fsys = {AOneMd, AMd, BMd} => filenames = <<AMd, AOneMd, BMd>>
    /\ pc = "done" =>
           \A i, j \in 1..Len(ret.doc.Blocks) :
               LET a == ret.doc.Blocks[i]
                   b == ret.doc.Blocks[j]
               IN  (i < j /\ a.file # <<>> /\ b.file # <<>>) =>
                       /\ a.file = b.file => a.id < b.id
                       /\ a.file # b.file => StringLess(a.file, b.file)
                       /\ ~(a.file = AOneMd /\ b.file = AMd)

C9_Witness ==
    /\ pc = "done"
    /\ filenames = <<AMd, AOneMd, BMd>>
    /\ \E i, j, k \in 1..Len(ret.doc.Blocks) :
           /\ i < j /\ j < k
           /\ ret.doc.Blocks[i].file = AMd
           /\ ret.doc.Blocks[j].file = AOneMd
           /\ ret.doc.Blocks[k].file = BMd
    /\ \E i \in 1..Len(fsys[AMd].Blocks) : isEmpty(fsys[AMd].Blocks[i])

====
